---- MODULE Spec2Model ----
(***************************************************************************)
(* The user service (internal/service), its gorm repository                *)
(* (internal/repository) and the app_users table they work on.             *)
(*                                                                         *)
(* Every request is a process that runs one service method.  A step of a   *)
(* process is one database round trip together with the Go code around it, *)
(* so that requests interleave exactly where the server lets them: between *)
(* two statements sent to PostgreSQL.                                      *)
(*                                                                         *)
(* A pointer is a sequence of length 0 (nil) or 1.  A Go error is the name *)
(* of its sentinel value, "nil" for no error.                              *)
(***************************************************************************)
EXTENDS Integers, Sequences, FiniteSets, TLC

VARIABLES
    db,       \* app_users: id -> row, soft-deleted rows included
    nextId,   \* the next value of the id sequence of app_users
    clock,    \* the time, advanced by every write statement
    pc,       \* per request: where its service method stands
    call,     \* per request: the method and its arguments
    user,     \* per request: the method's local *models.User
    count,    \* per request: the count repo.List read
    ret,      \* the request that returned last: its call, what it returned,
              \* the user it had fetched and result.Error of its write
    lastPw,   \* history: id -> the password most recently set for that user
    resp      \* the server's last answer on a protected route: the request,
              \* the status a middleware wrote, the handler reached and the
              \* user id in the context it was reached with

vars == <<db, nextId, clock, pc, call, user, count, ret, lastPw, resp>>

(***************************************************************************)
(* Bounds of the model.                                                    *)
(***************************************************************************)
MaxWrites == 3
MaxListWrites == 12

\* The requests under way at one time.
Procs == {"r1", "r2"}

Usernames == {"u1", "u2"}
Emails == {"e1", "e2"}
\* TooLong stands for a password of more than 72 bytes whose first 72 bytes
\* are no other password of the model.
TooLong == "p-longer-than-72-bytes"

Nil == <<>>

Min(S) == CHOOSE x \in S : \A y \in S : x <= y

(***************************************************************************)
(* bcrypt, as the service uses it.                                         *)
(***************************************************************************)
GenerateFromPassword(password) ==
    IF password = TooLong
    THEN [err |-> "ErrPasswordTooLong", hash |-> Nil]
    ELSE [err |-> "nil", hash |-> <<"bcrypt", password>>]

CompareHashAndPassword(hash, password) ==
    IF hash = <<"bcrypt", password>> THEN "nil" ELSE "ErrMismatchedHashAndPassword"

(***************************************************************************)
(* models.User and the table.                                              *)
(***************************************************************************)
NotDeleted == [Valid |-> FALSE]
Deleted == [Valid |-> TRUE]

\* gorm's soft-delete scope: deleted_at IS NULL
Live(d) == {i \in DOMAIN d : ~d[i].DeletedAt.Valid}

UsernameIndex == "idx_app_users_username"
EmailIndex == "idx_app_users_email"

\* UniqueViolations of a table whose username is not indexed.
UniqueViolations_EmailOnly(d, u) ==
    {c \in {EmailIndex} : \E i \in DOMAIN d : d[i].Email = u.Email}

\* The unique indexes an INSERT of u would violate: they cover every row.
UniqueViolations(d, u) ==
    {c \in {UsernameIndex, EmailIndex} :
        \E i \in DOMAIN d :
            \/ c = UsernameIndex /\ d[i].Username = u.Username
            \/ c = EmailIndex /\ d[i].Email = u.Email}

\* The text of the driver's error for a violated unique index.
PgUniqueViolation(index) ==
    "ERROR: duplicate key value violates unique constraint \"" \o index
        \o "\" (SQLSTATE 23505)"

NoSqlError == ""

(***************************************************************************)
(* GormUserRepository.                                                     *)
(***************************************************************************)
isUniqueConstraintError(err) ==
    err # NoSqlError
        /\ err = "ERROR: duplicate key value violates unique constraint"

\* Create and Update: the error returned for result.Error.
WriteError(err) ==
    IF err # NoSqlError
    THEN IF isUniqueConstraintError(err) THEN "ErrConflict" ELSE "ErrDatabase"
    ELSE "nil"

\* GetByID without the soft-delete scope.
GetByID_Unscoped(d, id) ==
    IF id \in DOMAIN d
    THEN [err |-> "nil", user |-> <<d[id]>>]
    ELSE [err |-> "ErrNotFound", user |-> Nil]

GetByID(d, id) ==
    IF id \in Live(d)
    THEN [err |-> "nil", user |-> <<d[id]>>]
    ELSE [err |-> "ErrNotFound", user |-> Nil]

GetByEmail(d, email) ==
    LET found == {i \in Live(d) : d[i].Email = email}
    IN  IF found # {}
        THEN [err |-> "nil", user |-> <<d[Min(found)]>>]
        ELSE [err |-> "ErrNotFound", user |-> Nil]

\* The users of d in ORDER BY created_at DESC, those of S.
RECURSIVE OrderByCreatedAtDesc(_, _)
OrderByCreatedAtDesc(d, S) ==
    IF S = {}
    THEN <<>>
    ELSE LET m == CHOOSE i \in S : \A j \in S : d[j].CreatedAt <= d[i].CreatedAt
         IN  <<d[m]>> \o OrderByCreatedAtDesc(d, S \ {m})

\* Count without the soft-delete scope.
Count_Unscoped(d) == Cardinality(DOMAIN d)

\* SELECT count(*) FROM app_users WHERE deleted_at IS NULL
Count(d) == Cardinality(Live(d))

\* SELECT * ... WHERE deleted_at IS NULL ORDER BY created_at DESC LIMIT .. OFFSET ..
Find(d, offset, limit) ==
    LET all == OrderByCreatedAtDesc(d, Live(d))
        last == IF offset + limit < Len(all) THEN offset + limit ELSE Len(all)
    IN  SubSeq(all, offset + 1, last)

\* GormCreate that stores the row also when the INSERT violates an index.
GormCreate_StoresOnViolation(d, id, now, u, index) ==
    LET row == [u EXCEPT !.ID = id, !.CreatedAt = now, !.UpdatedAt = now]
    IN  [db |-> (id :> row) @@ d, user |-> row,
         err |-> IF index # "" THEN PgUniqueViolation(index) ELSE NoSqlError]

\* db.Create(user): the id comes from the sequence, both times are set to now.
\* index is the unique index the INSERT violates, "" when it violates none.
GormCreate(d, id, now, u, index) ==
    IF index # ""
    THEN [db |-> d, user |-> u, err |-> PgUniqueViolation(index)]
    ELSE LET row == [u EXCEPT !.ID = id, !.CreatedAt = now, !.UpdatedAt = now]
         IN  [db |-> (id :> row) @@ d, user |-> row, err |-> NoSqlError]

\* db.Save(user) of a user with a primary key: UPDATE of every column WHERE
\* id = ? AND deleted_at IS NULL; when that affects no row, gorm falls back to
\* INSERT ... ON CONFLICT (id) DO UPDATE of every column but id and created_at.
GormSave(d, now, u) ==
    LET row == [u EXCEPT !.UpdatedAt = now]
    IN  IF u.ID \in Live(d)
        THEN [db |-> [d EXCEPT ![u.ID] = row], user |-> row, rowsAffected |-> 1,
              err |-> NoSqlError]
        ELSE IF u.ID \in DOMAIN d
        THEN [db |-> [d EXCEPT ![u.ID] = [row EXCEPT !.CreatedAt = d[u.ID].CreatedAt]],
              user |-> row, rowsAffected |-> 1, err |-> NoSqlError]
        ELSE [db |-> (u.ID :> row) @@ d, user |-> row, rowsAffected |-> 1,
              err |-> NoSqlError]

\* db.Delete(&models.User{}, id): UPDATE SET deleted_at = now WHERE id = ? AND
\* deleted_at IS NULL.
GormDelete(d, id) ==
    IF id \in Live(d)
    THEN [db |-> [d EXCEPT ![id].DeletedAt = Deleted], rowsAffected |-> 1]
    ELSE [db |-> d, rowsAffected |-> 0]

\* Update and Delete: the error returned for result.RowsAffected.
RowsAffectedError(rowsAffected) ==
    IF rowsAffected = 0 THEN "ErrNotFound" ELSE "nil"

RepositoryUpdateError(saved) ==
    IF saved.err # NoSqlError
    THEN WriteError(saved.err)
    ELSE RowsAffectedError(saved.rowsAffected)

(***************************************************************************)
(* DefaultUserService.                                                     *)
(***************************************************************************)
\* mapUserToResponse with the two names exchanged.
mapUserToResponse_SwapsNames(u) ==
    [ID |-> u.ID, Username |-> u.Username, Email |-> u.Email,
     FirstName |-> u.LastName, LastName |-> u.FirstName, IsActive |-> u.IsActive,
     CreatedAt |-> u.CreatedAt, UpdatedAt |-> u.UpdatedAt]

mapUserToResponse(u) ==
    [ID |-> u.ID, Username |-> u.Username, Email |-> u.Email,
     FirstName |-> u.FirstName, LastName |-> u.LastName, IsActive |-> u.IsActive,
     CreatedAt |-> u.CreatedAt, UpdatedAt |-> u.UpdatedAt]

Result(err, view, items, total) ==
    [err |-> err, view |-> view, items |-> items, total |-> total]

Failure(err) == Result(err, Nil, <<>>, 0)

Success(u) == Result("nil", <<mapUserToResponse(u)>>, <<>>, 0)

NoResult == Failure("nil")

\* NewUser that leaves IsActive at its zero value.
NewUser_Inactive(req, hash) ==
    [ID |-> 0, Username |-> req.Username, Email |-> req.Email,
     PasswordHash |-> hash, FirstName |-> req.FirstName, LastName |-> req.LastName,
     IsActive |-> FALSE, CreatedAt |-> 0, UpdatedAt |-> 0, DeletedAt |-> NotDeleted]

NewUser(req, hash) ==
    [ID |-> 0, Username |-> req.Username, Email |-> req.Email,
     PasswordHash |-> hash, FirstName |-> req.FirstName, LastName |-> req.LastName,
     IsActive |-> TRUE, CreatedAt |-> 0, UpdatedAt |-> 0, DeletedAt |-> NotDeleted]

\* CreateUserCheck without the pre-check by email.
CreateUserCheck_NoPrecheck(d, req) ==
    LET hashed == GenerateFromPassword(req.Password)
    IN  IF hashed.err # "nil"
        THEN [done |-> TRUE, res |-> Failure(hashed.err), user |-> Nil]
        ELSE [done |-> FALSE, res |-> NoResult,
              user |-> <<[ID |-> 0, Username |-> req.Username, Email |-> req.Email,
                          PasswordHash |-> hashed.hash, FirstName |-> req.FirstName,
                          LastName |-> req.LastName, IsActive |-> TRUE,
                          CreatedAt |-> 0, UpdatedAt |-> 0,
                          DeletedAt |-> NotDeleted]>>]

\* CreateUser up to repo.Create: the pre-check by email and the hashing.
\* done: the method returns here.
CreateUserCheck(d, req) ==
    LET got == GetByEmail(d, req.Email)
        hashed == GenerateFromPassword(req.Password)
    IN  IF got.err = "nil"
        THEN [done |-> TRUE, res |-> Failure("ErrUserAlreadyExists"), user |-> Nil]
        ELSE IF got.err # "ErrNotFound"
        THEN [done |-> TRUE, res |-> Failure(got.err), user |-> Nil]
        ELSE IF hashed.err # "nil"
        THEN [done |-> TRUE, res |-> Failure(hashed.err), user |-> Nil]
        ELSE [done |-> FALSE, res |-> NoResult, user |-> <<NewUser(req, hashed.hash)>>]

\* CreateUser after repo.Create returned err.
CreateUserReturn(err, u) ==
    IF err # "nil"
    THEN IF err = "ErrConflict" THEN Failure("ErrUserAlreadyExists") ELSE Failure(err)
    ELSE Success(u)

GetUser(d, id) ==
    LET got == GetByID(d, id)
    IN  IF got.err # "nil"
        THEN IF got.err = "ErrNotFound" THEN Failure("ErrUserNotFound") ELSE Failure(got.err)
        ELSE Success(got.user[1])

\* ListUsers: the offset and limit it passes to repo.List.
DefaultPageSize == 10

ListOffset(page, pageSize) ==
    LET pg == IF page < 1 THEN 1 ELSE page
        size == IF pageSize < 1 THEN DefaultPageSize ELSE pageSize
    IN  (pg - 1) * size

\* ListLimit that caps the page size at the default.
ListLimit_Capped(pageSize) ==
    IF pageSize < 1 \/ pageSize > DefaultPageSize THEN DefaultPageSize ELSE pageSize

ListLimit(pageSize) == IF pageSize < 1 THEN DefaultPageSize ELSE pageSize

\* ListUsers after repo.List returned users and count.
ListUsersReturn(users, total) ==
    Result("nil", Nil, [k \in 1..Len(users) |-> mapUserToResponse(users[k])], total)

\* ListUsers when no write falls between the two statements of repo.List.
ListUsers(d, page, pageSize) ==
    ListUsersReturn(Find(d, ListOffset(page, pageSize), ListLimit(pageSize)), Count(d))

\* UpdateUserCheck that hashes the request's password also when it is empty.
UpdateUserCheck_AlwaysRehash(d, id, req) ==
    LET got == GetByID(d, id)
        hashed == GenerateFromPassword(req.Password)
    IN  IF got.err # "nil"
        THEN [done |-> TRUE, res |-> Failure("ErrUserNotFound"), user |-> Nil]
        ELSE IF hashed.err # "nil"
        THEN [done |-> TRUE, res |-> Failure(hashed.err), user |-> Nil]
        ELSE [done |-> FALSE, res |-> NoResult,
              user |-> <<[got.user[1] EXCEPT !.FirstName = req.FirstName,
                                             !.LastName = req.LastName,
                                             !.PasswordHash = hashed.hash]>>]

\* UpdateUserCheck that keeps a stored name when the request's is empty.
UpdateUserCheck_KeepsEmptyNames(d, id, req) ==
    LET got == GetByID(d, id)
        hashed == GenerateFromPassword(req.Password)
        named == [got.user[1] EXCEPT
                     !.FirstName = IF req.FirstName = "" THEN @ ELSE req.FirstName,
                     !.LastName = IF req.LastName = "" THEN @ ELSE req.LastName]
    IN  IF got.err # "nil"
        THEN [done |-> TRUE, res |-> Failure("ErrUserNotFound"), user |-> Nil]
        ELSE IF req.Password = ""
        THEN [done |-> FALSE, res |-> NoResult, user |-> <<named>>]
        ELSE IF hashed.err # "nil"
        THEN [done |-> TRUE, res |-> Failure(hashed.err), user |-> Nil]
        ELSE [done |-> FALSE, res |-> NoResult,
              user |-> <<[named EXCEPT !.PasswordHash = hashed.hash]>>]

\* UpdateUser up to repo.Update: the fetch, the new names, the new hash.
UpdateUserCheck(d, id, req) ==
    LET got == GetByID(d, id)
        hashed == GenerateFromPassword(req.Password)
        named == [got.user[1] EXCEPT !.FirstName = req.FirstName,
                                     !.LastName = req.LastName]
    IN  IF got.err # "nil"
        THEN [done |-> TRUE,
              res |-> IF got.err = "ErrNotFound" THEN Failure("ErrUserNotFound")
                      ELSE Failure(got.err),
              user |-> Nil]
        ELSE IF req.Password = ""
        THEN [done |-> FALSE, res |-> NoResult, user |-> <<named>>]
        ELSE IF hashed.err # "nil"
        THEN [done |-> TRUE, res |-> Failure(hashed.err), user |-> Nil]
        ELSE [done |-> FALSE, res |-> NoResult,
              user |-> <<[named EXCEPT !.PasswordHash = hashed.hash]>>]

\* UpdateUser after repo.Update returned err.
UpdateUserReturn(err, u) ==
    IF err # "nil" THEN Failure(err) ELSE Success(u)

\* DeleteUser after repo.Delete returned err.
DeleteUserReturn(err) ==
    IF err # "nil"
    THEN IF err = "ErrNotFound" THEN Failure("ErrUserNotFound") ELSE Failure(err)
    ELSE Failure("nil")

\* AuthenticateUser that reports an unknown email as such.
AuthenticateUser_TellsNotFound(d, email, password) ==
    LET got == GetByEmail(d, email)
    IN  IF got.err # "nil"
        THEN Failure("ErrUserNotFound")
        ELSE IF CompareHashAndPassword(got.user[1].PasswordHash, password) # "nil"
        THEN Failure("ErrInvalidCredentials")
        ELSE Success(got.user[1])

AuthenticateUser(d, email, password) ==
    LET got == GetByEmail(d, email)
    IN  IF got.err # "nil"
        THEN IF got.err = "ErrNotFound" THEN Failure("ErrInvalidCredentials")
             ELSE Failure(got.err)
        ELSE IF CompareHashAndPassword(got.user[1].PasswordHash, password) # "nil"
        THEN Failure("ErrInvalidCredentials")
        ELSE Success(got.user[1])

(***************************************************************************)
(* The requests.                                                           *)
(***************************************************************************)
Call(op, id, username, email, password, first, last, page, pageSize) ==
    [op |-> op, ID |-> id, Username |-> username, Email |-> email,
     Password |-> password, FirstName |-> first, LastName |-> last,
     Page |-> page, PageSize |-> pageSize]

NoCall == Call("", 0, "", "", "", "", "", 0, 0)

CreateRequests ==
    [Username : Usernames, Email : Emails, Password : {"p1"},
     FirstName : {"f1"}, LastName : {"l1"}]
        \cup {[Username |-> "u1", Email |-> "e1", Password |-> TooLong,
                FirstName |-> "f1", LastName |-> "l1"]}

UpdateRequests ==
    {[FirstName |-> r[1], LastName |-> r[2], Password |-> r[3]] :
        r \in {<<"", "", "">>, <<"f2", "l2", "p2">>, <<"", "l2", "p1">>,
               <<"f2", "", TooLong>>}}

AuthPasswords == {"", "p1", "p2"}

\* The ids requests name: every row's, and one no row has.
IdArgs == DOMAIN db \cup {nextId}

ListArgs == {<<1, 2>>}

\* The write statements still to come from the requests under way.
Writing == {p \in Procs : pc[p] \in {"create_insert", "update_save"}}

WritesLeft(bound) == clock + Cardinality(Writing) < bound

Returned(c, u, r, e) == [call |-> c, user |-> u, res |-> r, sqlErr |-> e]

(***************************************************************************)
(* The middleware and the routes of main.  A header value is the sequence  *)
(* of its characters.                                                      *)
(***************************************************************************)
BearerPrefix == <<"B", "e", "a", "r", "e", "r", " ">>

\* strings.HasPrefix
HasPrefix(s, prefix) ==
    Len(s) >= Len(prefix) /\ SubSeq(s, 1, Len(prefix)) = prefix

\* The context of a request as the server hands it to the mux: no user_id.
RequestContext == [user_id |-> Nil]

\* AuthMiddleware: next is whether it calls the next handler, ctx the context
\* it calls it with, status the status it writes when it does not.
AuthMiddleware(header, ctx) ==
    IF header = <<>> \/ ~HasPrefix(header, BearerPrefix)
    THEN [next |-> FALSE, ctx |-> ctx, status |-> 401]
    ELSE [next |-> TRUE, ctx |-> [ctx EXCEPT !.user_id = <<1>>], status |-> 0]

GetUserID(ctx) ==
    [userID |-> IF ctx.user_id # Nil THEN ctx.user_id[1] ELSE 0,
     ok |-> ctx.user_id # Nil]

RequireAuthentication(ctx) ==
    IF ~GetUserID(ctx).ok
    THEN [next |-> FALSE, ctx |-> ctx, status |-> 401]
    ELSE [next |-> TRUE, ctx |-> ctx, status |-> 0]

\* The patterns main registers authRouter for.
ProtectedRoutes ==
    {[Method |-> "GET", Pattern |-> "/api/users"],
     [Method |-> "GET", Pattern |-> "/api/users/{id}"],
     [Method |-> "PUT", Pattern |-> "/api/users/{id}"],
     [Method |-> "DELETE", Pattern |-> "/api/users/{id}"]}

\* The Authorization headers of the model: none, a bearer token, "Bearer " with
\* no token, another scheme, and "bearer" in lower case.
Headers ==
    {<<>>,
     BearerPrefix \o <<"t">>,
     BearerPrefix,
     <<"B", "a", "s", "i", "c", " ", "t">>,
     <<"b", "e", "a", "r", "e", "r", " ", "t">>}

\* r.URL.Path and r.PathValue("id") of a request of pattern `pattern` and id.
URLPath(pattern, id) ==
    IF pattern = "/api/users" THEN "/api/users" ELSE "/api/users/" \o ToString(id)

PathValueId(pattern, id) ==
    IF pattern = "/api/users" THEN "" ELSE ToString(id)

\* The handler the switch of authRouter calls, "NotFound" for http.NotFound.
authRouter(method, pattern, id) ==
    IF method = "GET" /\ URLPath(pattern, id) = "/api/users" THEN "ListUsers"
    ELSE IF method = "GET" /\ PathValueId(pattern, id) # "" THEN "GetUser"
    ELSE IF method = "PUT" /\ PathValueId(pattern, id) # "" THEN "UpdateUser"
    ELSE IF method = "DELETE" /\ PathValueId(pattern, id) # "" THEN "DeleteUser"
    ELSE "NotFound"

Response(method, pattern, header, status, handler, userID) ==
    [Method |-> method, Pattern |-> pattern, Header |-> header, Status |-> status,
     Handler |-> handler, UserID |-> userID]

NoResponse == Response("", "", <<>>, 0, "", Nil)

Init ==
    /\ db = <<>>
    /\ nextId = 1
    /\ clock = 0
    /\ pc = [p \in Procs |-> "idle"]
    /\ call = [p \in Procs |-> NoCall]
    /\ user = [p \in Procs |-> Nil]
    /\ count = [p \in Procs |-> 0]
    /\ ret = Returned(NoCall, Nil, NoResult, NoSqlError)
    /\ lastPw = <<>>
    /\ resp = NoResponse

\* The method of p returns r: the request is over.
Return(p, c, u, r, e) ==
    /\ ret' = Returned(c, u, r, e)
    /\ pc' = [pc EXCEPT ![p] = "idle"]
    /\ call' = [call EXCEPT ![p] = NoCall]
    /\ user' = [user EXCEPT ![p] = Nil]
    /\ count' = [count EXCEPT ![p] = 0]

\* The method of p goes on to its next statement.
Continue(p, c, u, n, at) ==
    /\ pc' = [pc EXCEPT ![p] = at]
    /\ call' = [call EXCEPT ![p] = c]
    /\ user' = [user EXCEPT ![p] = u]
    /\ count' = [count EXCEPT ![p] = n]
    /\ UNCHANGED ret

CreateUserBegin(p, req) ==
    /\ pc[p] = "idle"
    /\ LET c == CreateUserCheck(db, req)
           cl == Call("CreateUser", 0, req.Username, req.Email, req.Password,
                      req.FirstName, req.LastName, 0, 0)
       IN  IF c.done
           THEN Return(p, cl, c.user, c.res, NoSqlError)
           ELSE Continue(p, cl, c.user, 0, "create_insert")
    /\ UNCHANGED <<db, nextId, clock, lastPw>>

CreateUserInsert(p) ==
    /\ pc[p] = "create_insert"
    /\ LET violated == UniqueViolations(db, user[p][1])
       IN  \E index \in (IF violated = {} THEN {""} ELSE violated) :
             LET r == GormCreate(db, nextId, clock + 1, user[p][1], index)
             IN  /\ db' = r.db
                 /\ Return(p, call[p], <<r.user>>,
                           CreateUserReturn(WriteError(r.err), r.user), r.err)
                 /\ lastPw' = IF r.err = NoSqlError
                              THEN (nextId :> call[p].Password) @@ lastPw
                              ELSE lastPw
    /\ nextId' = nextId + 1
    /\ clock' = clock + 1

GetUserCall(p, id) ==
    /\ pc[p] = "idle"
    /\ Return(p, Call("GetUser", id, "", "", "", "", "", 0, 0), GetByID(db, id).user,
              GetUser(db, id), NoSqlError)
    /\ UNCHANGED <<db, nextId, clock, lastPw>>

ListUsersBegin(p, page, pageSize) ==
    /\ pc[p] = "idle"
    /\ Continue(p, Call("ListUsers", 0, "", "", "", "", "", page, pageSize), Nil,
                Count(db), "list_find")
    /\ UNCHANGED <<db, nextId, clock, lastPw>>

ListUsersFind(p) ==
    /\ pc[p] = "list_find"
    /\ Return(p, call[p], Nil,
              ListUsersReturn(Find(db, ListOffset(call[p].Page, call[p].PageSize),
                                   ListLimit(call[p].PageSize)),
                              count[p]),
              NoSqlError)
    /\ UNCHANGED <<db, nextId, clock, lastPw>>

UpdateUserBegin(p, id, req) ==
    /\ pc[p] = "idle"
    /\ LET c == UpdateUserCheck(db, id, req)
           cl == Call("UpdateUser", id, "", "", req.Password, req.FirstName,
                      req.LastName, 0, 0)
       IN  IF c.done
           THEN Return(p, cl, c.user, c.res, NoSqlError)
           ELSE Continue(p, cl, c.user, 0, "update_save")
    /\ UNCHANGED <<db, nextId, clock, lastPw>>

UpdateUserSave(p) ==
    /\ pc[p] = "update_save"
    /\ LET r == GormSave(db, clock + 1, user[p][1])
           err == RepositoryUpdateError(r)
       IN  /\ db' = r.db
           /\ Return(p, call[p], <<r.user>>, UpdateUserReturn(err, r.user), r.err)
           /\ lastPw' = IF err = "nil" /\ call[p].Password # ""
                        THEN [lastPw EXCEPT ![call[p].ID] = call[p].Password]
                        ELSE lastPw
    /\ clock' = clock + 1
    /\ UNCHANGED nextId

DeleteUserCall(p, id) ==
    /\ pc[p] = "idle"
    /\ LET r == GormDelete(db, id)
       IN  /\ db' = r.db
           /\ clock' = clock + r.rowsAffected
           /\ Return(p, Call("DeleteUser", id, "", "", "", "", "", 0, 0), Nil,
                     DeleteUserReturn(RowsAffectedError(r.rowsAffected)), NoSqlError)
    /\ UNCHANGED <<nextId, lastPw>>

AuthenticateUserCall(p, email, password) ==
    /\ pc[p] = "idle"
    /\ Return(p, Call("AuthenticateUser", 0, "", email, password, "", "", 0, 0),
              GetByEmail(db, email).user, AuthenticateUser(db, email, password),
              NoSqlError)
    /\ UNCHANGED <<db, nextId, clock, lastPw>>

\* The requests of the clients P, with at most `bound` write statements: calls
\* of the methods of UserService.
Requests(P, bound) ==
    /\ UNCHANGED resp
    /\ \E p \in P :
           \/ WritesLeft(bound) /\ \E req \in CreateRequests : CreateUserBegin(p, req)
           \/ CreateUserInsert(p)
           \/ \E id \in IdArgs : GetUserCall(p, id)
           \/ \E a \in ListArgs : ListUsersBegin(p, a[1], a[2])
           \/ ListUsersFind(p)
           \/ WritesLeft(bound) /\ \E id \in IdArgs, req \in UpdateRequests :
                                       UpdateUserBegin(p, id, req)
           \/ UpdateUserSave(p)
           \/ WritesLeft(bound) /\ \E id \in IdArgs : DeleteUserCall(p, id)
           \/ \E email \in Emails, password \in AuthPasswords :
                  AuthenticateUserCall(p, email, password)

\* Concurrent requests.
Next == Requests(Procs, MaxWrites)

Spec == Init /\ [][Next]_vars

\* One request at a time.
SeqNext == Requests({"r1"}, MaxWrites)

SeqSpec == Init /\ [][SeqNext]_vars

(***************************************************************************)
(* The server as main wires it: the two public routes go to their handlers *)
(* and the protected routes to RequireAuthentication(authRouter).          *)
(***************************************************************************)
\* A request of a protected route: mux hands it, with the server's context, to
\* RequireAuthentication, which calls authRouter or answers it.
ProtectedRequest(p, route, header, id) ==
    /\ pc[p] = "idle"
    /\ LET auth == RequireAuthentication(RequestContext)
           handler == authRouter(route.Method, route.Pattern, id)
       IN  IF auth.next
           THEN /\ resp' = Response(route.Method, route.Pattern, header, 0, handler,
                                    auth.ctx.user_id)
                /\ IF handler = "ListUsers"
                   THEN \E a \in ListArgs : ListUsersBegin(p, a[1], a[2])
                   ELSE IF handler = "GetUser"
                   THEN GetUserCall(p, id)
                   ELSE IF handler = "UpdateUser"
                   THEN \E req \in UpdateRequests : UpdateUserBegin(p, id, req)
                   ELSE IF handler = "DeleteUser"
                   THEN DeleteUserCall(p, id)
                   ELSE UNCHANGED <<db, nextId, clock, pc, call, user, count, ret,
                                    lastPw>>
           ELSE /\ resp' = Response(route.Method, route.Pattern, header, auth.status,
                                    "", Nil)
                /\ UNCHANGED <<db, nextId, clock, pc, call, user, count, ret, lastPw>>

\* POST /api/users
PostUsers(p, req) == CreateUserBegin(p, req) /\ UNCHANGED resp

\* POST /api/auth/login
PostAuthLogin(p, email, password) ==
    AuthenticateUserCall(p, email, password) /\ UNCHANGED resp

\* The next statement of the service method a handler of p has called.
HandlerContinues(p) ==
    /\ pc[p] # "idle"
    /\ IF pc[p] = "create_insert" THEN CreateUserInsert(p)
       ELSE IF pc[p] = "list_find" THEN ListUsersFind(p)
       ELSE UpdateUserSave(p)
    /\ UNCHANGED resp

HttpNext ==
    \E p \in Procs :
        \/ WritesLeft(MaxWrites) /\ \E req \in CreateRequests : PostUsers(p, req)
        \/ \E email \in Emails, password \in AuthPasswords :
               PostAuthLogin(p, email, password)
        \/ HandlerContinues(p)
        \/ \E route \in ProtectedRoutes, header \in Headers, id \in IdArgs :
               ProtectedRequest(p, route, header, id)

HttpSpec == Init /\ [][HttpNext]_vars

(***************************************************************************)
(* Listing: one client fills the table with users of its own and lists     *)
(* them, so that the table outgrows the default page.                      *)
(***************************************************************************)
ListCreateRequest(i) ==
    [Username |-> "u" \o ToString(i), Email |-> "e" \o ToString(i),
     Password |-> "p1", FirstName |-> "f1", LastName |-> "l1"]

ListPages == {-1, 0, 1, 2}
ListPageSizes == {-1, 0, 4, 10, 11}
ListDeleteIds == {1, 6, 11}

ListNext ==
    /\ UNCHANGED resp
    /\ \/ WritesLeft(MaxListWrites) /\ CreateUserBegin("r1", ListCreateRequest(nextId))
       \/ CreateUserInsert("r1")
       \/ \E page \in ListPages, pageSize \in ListPageSizes :
              ListUsersBegin("r1", page, pageSize)
       \/ ListUsersFind("r1")
       \/ WritesLeft(MaxListWrites) /\ \E id \in ListDeleteIds : DeleteUserCall("r1", id)

ListSpec == Init /\ [][ListNext]_vars

(***************************************************************************)
(* Properties.                                                             *)
(***************************************************************************)
ViewFields ==
    {"ID", "Username", "Email", "FirstName", "LastName", "IsActive", "CreatedAt",
     "UpdatedAt"}

\* A step in which a CreateUser returns.
CreateUserReturns ==
    \E p \in Procs :
        \/ CreateUserInsert(p)
        \/ \E req \in CreateRequests :
               CreateUserBegin(p, req) /\ CreateUserCheck(db, req).done

\* r is the return of a CreateUser that succeeded: no error and the view of the
\* request, active, with no password in it.
CreatedAsRequested(r) ==
    /\ r.call.op = "CreateUser"
    /\ r.res.err = "nil"
    /\ Len(r.res.view) = 1
    /\ DOMAIN r.res.view[1] = ViewFields
    /\ r.res.view[1].Username = r.call.Username
    /\ r.res.view[1].Email = r.call.Email
    /\ r.res.view[1].FirstName = r.call.FirstName
    /\ r.res.view[1].LastName = r.call.LastName
    /\ r.res.view[1].IsActive = TRUE

\* C1 as claimed, of the passwords bcrypt hashes: a CreateUser whose email no
\* non-deleted user has succeeds, whatever its username, and returns the view of
\* its request.
C1_CreateSucceedsForUnusedEmail ==
    [][(/\ CreateUserReturns
        /\ ret'.call.Password # TooLong
        /\ \A i \in Live(db) : db[i].Email # ret'.call.Email)
          => CreatedAsRequested(ret')]_vars

\* C1, amended: a CreateUser with a password of at most 72 bytes whose email and
\* username no stored user has, soft-deleted users included, succeeds and returns
\* the view of its request, active and without password or hash.
C1_CreateSucceedsForUnusedEmailAndUsername ==
    [][(/\ CreateUserReturns
        /\ ret'.call.Password # TooLong
        /\ \A i \in DOMAIN db : /\ db[i].Email # ret'.call.Email
                                /\ db[i].Username # ret'.call.Username)
          => CreatedAsRequested(ret')]_vars

\* A CreateUser has succeeded on a table that held another user.
C1_Witness ==
    /\ CreatedAsRequested(ret)
    /\ Cardinality(DOMAIN db) >= 2
    /\ ret.res.view[1].ID \in Live(db)

\* C2: a CreateUser that follows a successful CreateUser of the same email
\* returns ErrUserAlreadyExists and stores nothing.
C2_SecondCreateAlreadyExists ==
    [][\A p \in Procs, req \in CreateRequests :
          (/\ ret.call.op = "CreateUser"
           /\ ret.res.err = "nil"
           /\ req.Email = ret.call.Email
           /\ CreateUserBegin(p, req))
             => /\ pc'[p] = "idle"
                /\ ret'.call.op = "CreateUser"
                /\ ret'.res = Failure("ErrUserAlreadyExists")
                /\ db' = db
                /\ nextId' = nextId]_vars

\* The only write so far stored a user, and a CreateUser of its email has
\* returned ErrUserAlreadyExists.
C2_Witness ==
    /\ ret.call.op = "CreateUser"
    /\ ret.res.err = "ErrUserAlreadyExists"
    /\ clock = 1
    /\ DOMAIN db = {1}
    /\ db[1].Email = ret.call.Email

\* C3 as claimed: the insert of a CreateUser that finds its email stored by a
\* request that ran since its pre-check is rejected as ErrConflict by the
\* repository and returned as ErrUserAlreadyExists, and one user has the email.
C3_RaceLoserAlreadyExists ==
    [][\A p \in Procs :
          (CreateUserInsert(p) /\ \E i \in Live(db) : db[i].Email = call[p].Email)
             => /\ WriteError(ret'.sqlErr) = "ErrConflict"
                /\ ret'.res = Failure("ErrUserAlreadyExists")
                /\ Cardinality({i \in DOMAIN db' : db'[i].Email = call[p].Email}) = 1]_vars

\* A step in which GetUser, UpdateUser or DeleteUser is called with id.
CalledWithId(id) ==
    \E p \in Procs :
        \/ GetUserCall(p, id)
        \/ \E req \in UpdateRequests : UpdateUserBegin(p, id, req)
        \/ DeleteUserCall(p, id)

\* C4: GetUser, UpdateUser and DeleteUser of an id that no non-deleted user has
\* return ErrUserNotFound at once and leave the table as it is.  (The id a step
\* is called with is the id of the last return or of a call under way after it.)
C4_NotFoundForAbsentId ==
    [][\A id \in {ret'.call.ID} \cup {call'[p].ID : p \in Procs} :
          (id \notin Live(db) /\ CalledWithId(id))
             => /\ ret'.call.ID = id
                /\ ret'.call.op \in {"GetUser", "UpdateUser", "DeleteUser"}
                /\ ret'.res = Failure("ErrUserNotFound")
                /\ \A p \in Procs : pc'[p] = pc[p]
                /\ db' = db
                /\ nextId' = nextId]_vars

\* An UpdateUser of a soft-deleted user has returned ErrUserNotFound.
C4_Witness ==
    /\ ret.call.op = "UpdateUser"
    /\ ret.res.err = "ErrUserNotFound"
    /\ ret.call.ID \in DOMAIN db \ Live(db)

\* C5: every AuthenticateUser that fails returns the one value (nil,
\* ErrInvalidCredentials), whether its email is stored or not.
C5_AuthFailuresIndistinguishable ==
    /\ (ret.call.op = "AuthenticateUser" /\ ret.res.err # "nil")
          => ret.res = Failure("ErrInvalidCredentials")
    /\ \A e1 \in Emails, e2 \in Emails, p1 \in AuthPasswords, p2 \in AuthPasswords :
          LET a == AuthenticateUser(db, e1, p1)
              b == AuthenticateUser(db, e2, p2)
          IN  (a.err # "nil" /\ b.err # "nil")
                 => (a = b /\ a.err = "ErrInvalidCredentials" /\ a.view = Nil)

\* An AuthenticateUser with a stored email and a wrong password has failed,
\* while another email is not stored.
C5_Witness ==
    /\ ret.call.op = "AuthenticateUser"
    /\ ret.res.err = "ErrInvalidCredentials"
    /\ ret.user # Nil
    /\ \E e \in Emails : \A i \in Live(db) : db[i].Email # e

\* C6: with one request at a time, AuthenticateUser succeeds, with the view of
\* the user, exactly when a non-deleted user has the email and the password is
\* the one most recently set for it; otherwise it returns ErrInvalidCredentials.
C6_AuthAcceptsOnlyLatestPassword ==
    \A e \in Emails, pw \in AuthPasswords \cup {TooLong} :
        LET a == AuthenticateUser(db, e, pw)
            owners == {i \in Live(db) : db[i].Email = e /\ lastPw[i] = pw}
        IN  /\ a.err = "nil" <=> owners # {}
            /\ a.err # "nil" => a = Failure("ErrInvalidCredentials")
            /\ a.err = "nil" =>
                  /\ Len(a.view) = 1
                  /\ a.view[1].ID \in owners
                  /\ a.view[1].Email = e
                  /\ DOMAIN a.view[1] = ViewFields
            /\ (ret.call.op = "AuthenticateUser" /\ ret.call.Email = e
                   /\ ret.call.Password = pw) => ret.res = a

\* AuthenticateUser has rejected the password a user was created with, after
\* an UpdateUser set another.
C6_Witness ==
    /\ ret.call.op = "AuthenticateUser"
    /\ ret.call.Password = "p1"
    /\ ret.res.err = "ErrInvalidCredentials"
    /\ \E i \in Live(db) : db[i].Email = ret.call.Email /\ lastPw[i] = "p2"

\* C7 as claimed: the write of an UpdateUser with an empty password leaves the
\* stored password hash of its user as it is.
C7_EmptyPasswordKeepsHash ==
    [][\A p \in Procs :
          (UpdateUserSave(p) /\ call[p].Password = "")
             => db'[call[p].ID].PasswordHash = db[call[p].ID].PasswordHash]_vars

\* The number of items of page `page` (from 1) of `total` users, `size` a page.
PageLength(total, page, size) ==
    IF total <= (page - 1) * size THEN 0
    ELSE IF total - (page - 1) * size < size THEN total - (page - 1) * size
    ELSE size

\* C8: ListUsers with page < 1 returns what it returns with page 1, and with
\* pageSize < 1 what it returns with pageSize 10; a pageSize >= 1 is the
\* length of every page that the users fill.
C8_ListDefaults ==
    ret.call.op = "ListUsers" =>
        /\ ret.call.Page < 1 => ret.res = ListUsers(db, 1, ret.call.PageSize)
        /\ ret.call.PageSize < 1 => ret.res = ListUsers(db, ret.call.Page, 10)
        /\ (ret.call.Page < 1 /\ ret.call.PageSize < 1) => ret.res = ListUsers(db, 1, 10)
        /\ ret.call.PageSize >= 1 =>
              Len(ret.res.items) =
                  PageLength(Cardinality(Live(db)),
                             IF ret.call.Page < 1 THEN 1 ELSE ret.call.Page,
                             ret.call.PageSize)

\* ListUsers(0, 0) has returned 10 of more than 10 users.
C8_Witness ==
    /\ ret.call.op = "ListUsers"
    /\ ret.call.Page = 0
    /\ ret.call.PageSize = 0
    /\ Len(ret.res.items) = 10
    /\ ret.res.total > 10

\* v is the public view of the row u.
IsViewOf(v, u) ==
    /\ DOMAIN v = ViewFields
    /\ v.ID = u.ID
    /\ v.Username = u.Username
    /\ v.Email = u.Email
    /\ v.FirstName = u.FirstName
    /\ v.LastName = u.LastName
    /\ v.IsActive = u.IsActive
    /\ v.CreatedAt = u.CreatedAt
    /\ v.UpdatedAt = u.UpdatedAt

\* C9: ListUsers(page, pageSize) with page, pageSize >= 1 and no write under way
\* returns the number of non-deleted users as total, and as its k-th item the
\* view of the non-deleted user that (page-1)*pageSize + k - 1 non-deleted users
\* were created after, for every k up to the length of the page.
C9_ListPage ==
    (ret.call.op = "ListUsers" /\ ret.call.Page >= 1 /\ ret.call.PageSize >= 1) =>
        /\ ret.res.err = "nil"
        /\ ret.res.total = Cardinality(Live(db))
        /\ Len(ret.res.items) =
               PageLength(Cardinality(Live(db)), ret.call.Page, ret.call.PageSize)
        /\ \A k \in 1..Len(ret.res.items) :
               \E i \in Live(db) :
                   /\ IsViewOf(ret.res.items[k], db[i])
                   /\ Cardinality({j \in Live(db) : db[j].CreatedAt > db[i].CreatedAt})
                          = (ret.call.Page - 1) * ret.call.PageSize + k - 1

\* ListUsers has returned a full second page of a table with deleted users.
C9_Witness ==
    /\ ret.call.op = "ListUsers"
    /\ ret.call.Page = 2
    /\ ret.call.PageSize = 4
    /\ Len(ret.res.items) = 4
    /\ Live(db) # DOMAIN db

\* C10: a GetUser of the id a CreateUser has just returned returns a view with
\* the identifier, names, email and active flag of the view CreateUser returned
\* and of the request.
C10_CreateGetRoundTrip ==
    [][\A p \in Procs :
          (/\ ret.call.op = "CreateUser"
           /\ ret.res.err = "nil"
           /\ GetUserCall(p, ret.res.view[1].ID))
             => /\ ret'.call.op = "GetUser"
                /\ ret'.res.err = "nil"
                /\ Len(ret'.res.view) = 1
                /\ \A f \in {"ID", "Username", "Email", "FirstName", "LastName",
                             "IsActive"} :
                       ret'.res.view[1][f] = ret.res.view[1][f]
                /\ \A f \in {"Username", "Email", "FirstName", "LastName"} :
                       ret'.res.view[1][f] = ret.call[f]
                /\ ret'.res.view[1].IsActive = TRUE]_vars

\* GetUser has returned a user that nothing was written after.
C10_Witness ==
    /\ ret.call.op = "GetUser"
    /\ ret.res.err = "nil"
    /\ ret.res.view[1].CreatedAt = clock
    /\ ret.res.view[1].UpdatedAt = clock

\* C11 as claimed: a step taken when a user is soft-deleted leaves it
\* soft-deleted, whatever request takes it: GetUser of its id returns
\* ErrUserNotFound, AuthenticateUser with its email ErrInvalidCredentials,
\* ListUsers neither returns nor counts it, DeleteUser of its id returns
\* ErrUserNotFound.
C11_SoftDeleteIrreversible ==
    [][\A i \in DOMAIN db \ Live(db) :
          /\ i \in DOMAIN db' \ Live(db')
          /\ GetUser(db', i) = Failure("ErrUserNotFound")
          /\ \A pw \in AuthPasswords :
                 AuthenticateUser(db', db[i].Email, pw) = Failure("ErrInvalidCredentials")
          /\ LET all == ListUsers(db', 1, Cardinality(DOMAIN db') + 1)
             IN  /\ \A k \in 1..Len(all.items) : all.items[k].ID # i
                 /\ all.total = Cardinality(Live(db') \ {i})
          /\ DeleteUserReturn(RowsAffectedError(GormDelete(db', i).rowsAffected))
                 = Failure("ErrUserNotFound")]_vars

\* C12: no step of any interleaving of requests leads to a table in which two
\* non-deleted users share an email or a username, or in which a user has an
\* empty password hash, and no step changes the identifier of a stored user.
C12_TableInvariants ==
    [][/\ \A i \in Live(db'), j \in Live(db') :
              i # j => /\ db'[i].Email # db'[j].Email
                       /\ db'[i].Username # db'[j].Username
       /\ \A i \in DOMAIN db' :
              /\ db'[i].PasswordHash # Nil
              /\ db'[i].PasswordHash # ""
              /\ db'[i].PasswordHash # <<"bcrypt", "">>
              /\ db'[i].ID = i
       /\ \A i \in DOMAIN db : i \in DOMAIN db' /\ db'[i].ID = db[i].ID]_vars

\* Two non-deleted users are stored after an insert failed on a unique index.
C12_Witness ==
    /\ Cardinality(Live(db)) >= 2
    /\ nextId > Cardinality(DOMAIN db) + 1

\* A step in which the CreateUser, UpdateUser or DeleteUser of p returns.
WriteReturns(p) ==
    \/ CreateUserInsert(p)
    \/ UpdateUserSave(p)
    \/ \E req \in CreateRequests : CreateUserBegin(p, req) /\ pc'[p] = "idle"
    \/ \E id \in IdArgs, req \in UpdateRequests :
           UpdateUserBegin(p, id, req) /\ pc'[p] = "idle"
    \/ \E id \in IdArgs : DeleteUserCall(p, id)

\* C13: the step in which a CreateUser, UpdateUser or DeleteUser returns an
\* error leaves the stored users, and every field of each, as they were, and the
\* request is over: it sends no further statement.
C13_ErrorsChangeNothing ==
    [][\A p \in Procs :
          (/\ ret'.res.err # "nil"
           /\ ret'.call.op \in {"CreateUser", "UpdateUser", "DeleteUser"}
           /\ WriteReturns(p))
             => /\ db' = db
                /\ pc'[p] = "idle"
                /\ ret'.res = Failure(ret'.res.err)]_vars

\* A CreateUser whose insert violated a unique index has returned an error, and
\* the table holds the user that has the index's value.
C13_Witness ==
    /\ ret.call.op = "CreateUser"
    /\ ret.sqlErr # NoSqlError
    /\ ret.res.err = "ErrDatabase"
    /\ Cardinality(DOMAIN db) = 1

\* C14 as claimed: when the user of an UpdateUser is no longer a non-deleted
\* user at its repo.Update, soft-deleted since the fetch, repo.Update returns
\* ErrNotFound and UpdateUser returns ErrUserNotFound.
C14_UpdateOfDeletedIsNotFound ==
    [][\A p \in Procs :
          (UpdateUserSave(p) /\ call[p].ID \notin Live(db))
             => /\ RepositoryUpdateError(GormSave(db, clock + 1, user[p][1]))
                       = "ErrNotFound"
                /\ ret'.res = Failure("ErrUserNotFound")]_vars

C16_BearerReachesHandler ==
    resp # NoResponse =>
        IF HasPrefix(resp.Header, BearerPrefix)
        THEN /\ resp.Handler \in {"ListUsers", "GetUser", "UpdateUser", "DeleteUser"}
             /\ resp.UserID = <<1>>
             /\ resp.Status # 401
        ELSE /\ resp.Status = 401
             /\ resp.Handler = ""

====
